---- MODULE Spec2Model ----
(***************************************************************************)
(* Formula evaluation engine of the DataTable component                    *)
(* (src/src/components/DataTable/FormulaParser.js).                         *)
(*                                                                         *)
(* JavaScript strings are TLA+ strings (TLC evaluates Len, SubSeq and \o   *)
(* on them).  Every other JavaScript value is a tagged record with the     *)
(* same four fields, so that any two values can be compared:               *)
(*   t  the typeof-like tag, n/d a rational number n/d (d = 0 encodes      *)
(*   NaN for n = 0, +Infinity for n = 1, -Infinity for n = -1),            *)
(*   s  the text of a string.                                              *)
(***************************************************************************)
EXTENDS Integers, Sequences, FiniteSets, TLC

(***************************************************************************)
(* Bounds of the checked input space.                                      *)
(***************************************************************************)
MaxNum == 2
MaxArgs == 2

(***************************************************************************)
(* JavaScript values.                                                      *)
(***************************************************************************)
Val(t, n, d, s) == [t |-> t, n |-> n, d |-> d, s |-> s]
Num(n) == Val("number", n, 1, "")
Str(s) == Val("string", 0, 1, s)
Bool(b) == Val("boolean", IF b THEN 1 ELSE 0, 1, "")
Null == Val("null", 0, 1, "")
Undefined == Val("undefined", 0, 1, "")
Symbol == Val("symbol", 0, 1, "")
Function == Val("function", 0, 1, "")
NaN == Val("number", 0, 0, "")
Infinity == Val("number", 1, 0, "")
NegInfinity == Val("number", -1, 0, "")
\* An abrupt completion (a thrown exception) of a call.
Throw == Val("throw", 0, 1, "TypeError")

IsNaN(v) == v.t = "number" /\ v.d = 0 /\ v.n = 0

Abs(i) == IF i < 0 THEN -i ELSE i

RECURSIVE Gcd(_, _)
Gcd(a, b) == IF b = 0 THEN a ELSE Gcd(b, a % b)

\* The number n/d (d > 0) in lowest terms.
Rat(n, d) ==
    LET g == Gcd(Abs(n), d)
    IN  Val("number", n \div g, d \div g, "")

\* x + y on finite numbers.
Plus(x, y) == Rat(x.n * y.d + y.n * x.d, x.d * y.d)

\* x < y on numbers; every comparison with NaN is false.
NumLess(x, y) ==
    IF IsNaN(x) \/ IsNaN(y) THEN FALSE
    ELSE IF x.d = 0 THEN x.n < 0 /\ y # x
    ELSE IF y.d = 0 THEN y.n > 0
    ELSE x.n * y.d < y.n * x.d

(***************************************************************************)
(* String primitives used by the parser.                                   *)
(***************************************************************************)
UpperCase == {"A", "B", "C", "D", "E", "F", "G", "H", "I", "J", "K", "L", "M",
              "N", "O", "P", "Q", "R", "S", "T", "U", "V", "W", "X", "Y", "Z"}
DigitChars == "0123456789"
LineTerminators == {"\n", "\r"}
WhiteSpace == {" ", "\t"} \cup LineTerminators

CharAt(s, i) == SubSeq(s, i, i)

\* String.prototype.startsWith(c) for a one-character c.
StartsWith(s, c) == Len(s) >= 1 /\ CharAt(s, 1) = c

\* String.prototype.includes(c) for a one-character c.
Includes(s, c) == \E i \in 1..Len(s) : CharAt(s, i) = c

\* String.prototype.trim().
Trim(s) ==
    LET keep == {i \in 1..Len(s) : CharAt(s, i) \notin WhiteSpace}
    IN  IF keep = {} THEN ""
        ELSE LET lo == CHOOSE i \in keep : \A j \in keep : i <= j
                 hi == CHOOSE i \in keep : \A j \in keep : i >= j
             IN  SubSeq(s, lo, hi)

\* String.prototype.split(c): the sequence of the pieces between the
\* occurrences of c; a string without c (the empty string too) is one piece.
RECURSIVE Split(_, _)
Split(s, c) ==
    IF ~Includes(s, c) THEN <<s>>
    ELSE LET i == CHOOSE k \in 1..Len(s) :
                      CharAt(s, k) = c /\ \A j \in 1..(k - 1) : CharAt(s, j) # c
         IN  <<SubSeq(s, 1, i - 1)>> \o Split(SubSeq(s, i + 1, Len(s)), c)

DigitValue(c) == CHOOSE k \in 0..9 : CharAt(DigitChars, k + 1) = c
IsDigit(c) == \E k \in 0..9 : CharAt(DigitChars, k + 1) = c

\* Number::toString of a non-negative integer.
RECURSIVE NatToString(_)
NatToString(n) ==
    IF n < 10 THEN CharAt(DigitChars, n + 1)
    ELSE NatToString(n \div 10) \o CharAt(DigitChars, (n % 10) + 1)

\* ToString of a value, as parseFloat applies it to its argument.  A number
\* that is no integer is handled in parseFloat.
JsToString(v) ==
    CASE v.t = "string" -> v.s
      [] v.t = "number" -> IF v.d = 0
                           THEN (IF v.n = 0 THEN "NaN"
                                 ELSE IF v.n > 0 THEN "Infinity" ELSE "-Infinity")
                           ELSE IF v.n < 0 THEN "-" \o NatToString(-v.n)
                           ELSE NatToString(v.n)
      [] v.t = "boolean" -> IF v.n = 1 THEN "true" ELSE "false"
      [] v.t = "null" -> "null"
      [] v.t = "undefined" -> "undefined"
      [] v.t = "function" -> "function () { [native code] }"

\* The value of the longest run of digits at the start of s, as a pair
\* <<value, number of digits>>.
RECURSIVE DigitRun(_, _, _)
DigitRun(s, acc, k) ==
    IF s # "" /\ IsDigit(Head(s))
    THEN DigitRun(Tail(s), acc * 10 + DigitValue(Head(s)), k + 1)
    ELSE <<acc, k>>

RECURSIVE TrimStart(_)
TrimStart(s) == IF s # "" /\ Head(s) \in WhiteSpace THEN TrimStart(Tail(s)) ELSE s

\* parseFloat of a string: leading white space is skipped, then the longest
\* prefix that is a decimal literal is read; NaN when there is none.  The
\* strings of this model hold no '.', no exponent and, but for ToString of
\* an infinite number, no "Infinity", so the literal is an optional sign
\* and a run of digits.
ParseFloatString(s) ==
    LET t == TrimStart(s)
        signed == t # "" /\ Head(t) \in {"+", "-"}
        body == IF signed THEN Tail(t) ELSE t
        run == DigitRun(body, 0, 0)
        neg == signed /\ Head(t) = "-"
    IN  IF run[2] = 0
        THEN (IF Len(body) >= 8 /\ SubSeq(body, 1, 8) = "Infinity"
              THEN (IF neg THEN NegInfinity ELSE Infinity)
              ELSE NaN)
        ELSE Num(IF neg THEN -run[1] ELSE run[1])

\* parseFloat(v): ToString of v, which throws a TypeError on a Symbol, then
\* the parse.  Number::toString of a finite number is the shortest text that
\* reads back as the same number, so a number that is no integer comes back
\* as itself.
parseFloat(v) ==
    IF v.t = "symbol" THEN Throw
    ELSE IF v.t = "number" /\ v.d > 1 THEN v
    ELSE ParseFloatString(JsToString(v))

(***************************************************************************)
(* The row: the rowData argument, a plain object (own properties props),   *)
(* null or undefined.                                                      *)
(***************************************************************************)
NoProps == [k \in {} |-> Undefined]
RowObject(props) == [t |-> "object", props |-> props]
NullRow == [t |-> "null", props |-> NoProps]
UndefinedRow == [t |-> "undefined", props |-> NoProps]

\* Properties every plain object inherits from Object.prototype.
ObjectPrototypeKeys == {"constructor", "toString", "valueOf", "hasOwnProperty",
                        "isPrototypeOf", "propertyIsEnumerable", "toLocaleString"}

\* rowData[key] on an object.
GetProp(rowData, key) ==
    IF key \in DOMAIN rowData.props THEN rowData.props[key]
    ELSE IF key \in ObjectPrototypeKeys THEN Function
    ELSE Undefined

(***************************************************************************)
(* A call returns its value and the trace of what it did: "field",         *)
(* "nested" and "literal" for each argument resolved, the name of the      *)
(* function dispatched, "evaluateCondition", "catch".                      *)
(***************************************************************************)
Ret(v, tr) == [val |-> v, trace |-> tr]

\* Boolean(v): false for false, 0, NaN, "", null and undefined.
ToBoolean(v) ==
    CASE v.t = "boolean" -> v.n = 1
      [] v.t = "number" -> v.n # 0
      [] v.t = "string" -> v.s # ""
      [] v.t \in {"null", "undefined"} -> FALSE
      [] OTHER -> TRUE

\* p || 0 for a number p.
OrZero(p) == IF ToBoolean(p) THEN p ELSE Num(0)

\* args.map(val => parseFloat(val) || 0); the first throw ends the map.
RECURSIVE Coerce(_)
Coerce(args) ==
    IF args = <<>> THEN <<>>
    ELSE LET p == parseFloat(Head(args))
         IN  IF p = Throw THEN <<Throw>>
             ELSE LET rest == Coerce(Tail(args))
                  IN  IF rest # <<>> /\ rest[Len(rest)] = Throw THEN <<Throw>>
                      ELSE <<OrZero(p)>> \o rest

Throws(nums) == nums # <<>> /\ nums[Len(nums)] = Throw

RECURSIVE Reduce(_, _)
Reduce(nums, acc) ==
    IF nums = <<>> THEN acc ELSE Reduce(Tail(nums), Plus(acc, Head(nums)))

\* SUM without the "|| 0": an argument that parses to NaN makes the sum NaN.
SumNoDefault(args) ==
    LET nums == Coerce(args)
    IN  IF Throws(nums) THEN Ret(Throw, <<>>)
        ELSE IF \E i \in 1..Len(args) : IsNaN(parseFloat(args[i])) THEN Ret(NaN, <<>>)
        ELSE Ret(Reduce(nums, Num(0)), <<>>)

\* FORMULA_FUNCTIONS.SUM
SUM(args) ==
    LET nums == Coerce(args)
    IN  IF Throws(nums) THEN Ret(Throw, <<>>) ELSE Ret(Reduce(nums, Num(0)), <<>>)

\* AVG dividing by the number of arguments that parse as numbers.
AvgOverNumeric(args) ==
    LET sum == Reduce(Coerce(args), Num(0))
        numeric == {i \in 1..Len(args) : ~IsNaN(parseFloat(args[i]))}
    IN  IF Throws(Coerce(args)) THEN Ret(Throw, <<>>)
        ELSE IF numeric = {} THEN Ret(Num(0), <<>>)
        ELSE Ret(Rat(sum.n, sum.d * Cardinality(numeric)), <<>>)

\* FORMULA_FUNCTIONS.AVG
AVG(args) ==
    IF Len(args) = 0 THEN Ret(Num(0), <<>>)
    ELSE LET sum == SUM(args).val
         IN  IF sum = Throw THEN Ret(Throw, <<>>)
             ELSE Ret(Rat(sum.n, sum.d * Len(args)), <<>>)

\* Math.min / Math.max of numbers: +Infinity / -Infinity of none.
MathMin(nums) ==
    IF nums = <<>> THEN Infinity
    ELSE nums[CHOOSE i \in 1..Len(nums) : \A j \in 1..Len(nums) : ~NumLess(nums[j], nums[i])]
MathMax(nums) ==
    IF nums = <<>> THEN NegInfinity
    ELSE nums[CHOOSE i \in 1..Len(nums) : \A j \in 1..Len(nums) : ~NumLess(nums[i], nums[j])]

\* MIN over the arguments that parse as numbers only.
MinOverNumeric(args) ==
    LET nums == Coerce(args)
        numeric == {i \in 1..Len(args) : ~IsNaN(parseFloat(args[i]))}
    IN  IF Throws(nums) THEN Ret(Throw, <<>>)
        ELSE IF numeric = {} THEN Ret(Num(0), <<>>)
        ELSE Ret(nums[CHOOSE i \in numeric : \A j \in numeric : ~NumLess(nums[j], nums[i])],
                 <<>>)

\* FORMULA_FUNCTIONS.MIN
MIN(args) ==
    LET nums == Coerce(args)
    IN  IF Throws(nums) THEN Ret(Throw, <<>>) ELSE Ret(MathMin(nums), <<>>)

\* FORMULA_FUNCTIONS.MAX
MAX(args) ==
    LET nums == Coerce(args)
    IN  IF Throws(nums) THEN Ret(Throw, <<>>) ELSE Ret(MathMax(nums), <<>>)

\* COUNT of the arguments that parse as numbers only.
CountNumeric(args) ==
    Ret(Num(Cardinality({i \in 1..Len(args) :
                            LET p == parseFloat(args[i])
                            IN  p.t = "number" /\ ~IsNaN(p)})), <<>>)

\* FORMULA_FUNCTIONS.COUNT
COUNT(args) == Ret(Num(Len(args)), <<>>)

\* const [left, right] = condition.split(op): the first two pieces.
\* The two sides when the text is split at the first op only.
SidesOnce(condition, op) ==
    LET i == CHOOSE k \in 1..Len(condition) :
                 CharAt(condition, k) = op /\ \A j \in 1..(k - 1) : CharAt(condition, j) # op
    IN  [left |-> Trim(SubSeq(condition, 1, i - 1)),
         right |-> Trim(SubSeq(condition, i + 1, Len(condition)))]

Sides(condition, op) ==
    LET parts == Split(condition, op)
    IN  [left |-> Trim(parts[1]), right |-> Trim(parts[2])]

\* evaluateCondition
evaluateCondition(condition) ==
    IF condition.t = "boolean" THEN condition.n = 1
    ELSE IF condition.t = "string" /\ Includes(condition.s, "=")
    THEN LET p == Sides(condition.s, "=") IN p.left = p.right
    ELSE IF condition.t = "string" /\ Includes(condition.s, ">")
    THEN LET p == Sides(condition.s, ">")
         IN  NumLess(ParseFloatString(p.right), ParseFloatString(p.left))
    ELSE IF condition.t = "string" /\ Includes(condition.s, "<")
    THEN LET p == Sides(condition.s, "<")
         IN  NumLess(ParseFloatString(p.left), ParseFloatString(p.right))
    ELSE ToBoolean(condition)

\* args[i] of a JavaScript array (indices from 0): undefined past the end.
At(args, i) == IF i + 1 \in DOMAIN args THEN args[i + 1] ELSE Undefined

\* IF without the arity check.
IfNoArityCheck(args) ==
    Ret(IF evaluateCondition(At(args, 0)) THEN At(args, 1) ELSE At(args, 2),
        <<"evaluateCondition">>)

\* IF taking its last argument, not its third, when the condition fails.
IfLastIsElse(args) ==
    IF Len(args) < 3 THEN Ret(Null, <<>>)
    ELSE Ret(IF evaluateCondition(At(args, 0)) THEN At(args, 1)
             ELSE At(args, Len(args) - 1),
             <<"evaluateCondition">>)

\* FORMULA_FUNCTIONS.IF
IF_(args) ==
    IF Len(args) < 3 THEN Ret(Null, <<>>)
    ELSE Ret(IF evaluateCondition(At(args, 0)) THEN At(args, 1) ELSE At(args, 2),
             <<"evaluateCondition">>)

\* The keys of FORMULA_FUNCTIONS.
FORMULA_FUNCTIONS == {"SUM", "AVG", "MIN", "MAX", "COUNT", "IF"}

\* FORMULA_FUNCTIONS[functionName](args)
\* The dispatch handing on an "Unknown function" text found among the
\* arguments instead of calling the function.
ApplyPropagating(functionName, args) ==
    LET unknown == {i \in 1..Len(args) :
                       /\ args[i].t = "string" /\ Len(args[i].s) >= 18
                       /\ SubSeq(args[i].s, 1, 18) = "Unknown function: "}
    IN  IF unknown # {} THEN Ret(args[CHOOSE i \in unknown : TRUE], <<>>)
        ELSE CASE functionName = "SUM" -> SUM(args)
               [] functionName = "AVG" -> AVG(args)
               [] functionName = "MIN" -> MIN(args)
               [] functionName = "MAX" -> MAX(args)
               [] functionName = "COUNT" -> COUNT(args)
               [] functionName = "IF" -> IF_(args)

Apply(functionName, args) ==
    CASE functionName = "SUM" -> SUM(args)
      [] functionName = "AVG" -> AVG(args)
      [] functionName = "MIN" -> MIN(args)
      [] functionName = "MAX" -> MAX(args)
      [] functionName = "COUNT" -> COUNT(args)
      [] functionName = "IF" -> IF_(args)

(***************************************************************************)
(* evaluateFormula                                                         *)
(***************************************************************************)
\* The guard without its typeof and startsWith tests.
PassThroughFalsyOnly(formula) == ~ToBoolean(formula)

\* !formula || typeof formula !== 'string' || !formula.startsWith('=')
PassThrough(formula) ==
    ~ToBoolean(formula) \/ formula.t # "string" \/ ~StartsWith(formula.s, "=")

\* The length of the longest run of upper-case letters of s from index i.
RECURSIVE UpperRun(_, _)
UpperRun(s, i) ==
    IF i <= Len(s) /\ CharAt(s, i) \in UpperCase THEN 1 + UpperRun(s, i + 1) ELSE 0

\* The pattern without its end anchor: the match ends at the last ')'.
FunctionMatchUnanchored(s) ==
    LET k == UpperRun(s, 2)
        closers == {i \in (k + 3)..Len(s) : CharAt(s, i) = ")"}
        n == IF closers = {} THEN 0 ELSE CHOOSE i \in closers : \A j \in closers : j <= i
        ok == /\ StartsWith(s, "=")
              /\ k >= 1
              /\ Len(s) >= k + 2
              /\ CharAt(s, k + 2) = "("
              /\ n # 0
              /\ \A i \in (k + 3)..(n - 1) : CharAt(s, i) \notin LineTerminators
    IN  [ok |-> ok,
         functionName |-> IF ok THEN SubSeq(s, 2, k + 1) ELSE "",
         argsString |-> IF ok THEN SubSeq(s, k + 3, n - 1) ELSE ""]

\* formula.match(/^=([A-Z]+)\((.*)\)$/): [A-Z]+ takes the whole run of
\* upper-case letters after '=', '(' follows it, the text ends in ')', and
\* '.' matches no line terminator.
FunctionMatch(s) ==
    LET k == UpperRun(s, 2)
        n == Len(s)
        ok == /\ StartsWith(s, "=")
              /\ k >= 1
              /\ n >= k + 3
              /\ CharAt(s, k + 2) = "("
              /\ CharAt(s, n) = ")"
              /\ \A i \in (k + 3)..(n - 1) : CharAt(s, i) \notin LineTerminators
    IN  [ok |-> ok,
         functionName |-> IF ok THEN SubSeq(s, 2, k + 1) ELSE "",
         argsString |-> IF ok THEN SubSeq(s, k + 3, n - 1) ELSE ""]

\* The diagnostic without the name.
UnknownFunctionNoName(functionName) == Str("Unknown function")

\* `Unknown function: ${functionName}`
UnknownFunction(functionName) == Str("Unknown function: " \o functionName)

\* No catch: the exception leaves the call.
CatchRethrow(r) == r

\* catch (error) { return 'Error'; }
Catch(r) ==
    IF r.val = Throw THEN Ret(Str("Error"), r.trace \o <<"catch">>) ELSE r

RECURSIVE evaluateFormula(_, _)

\* The callback evaluating the value of a field as a formula when that value
\* is a text starting with '='.
ResolveArgEvaluatingField(arg, rowData) ==
    LET trimmed == Trim(arg)
        value == GetProp(rowData, trimmed)
    IN  IF rowData.t = "object" /\ value # Undefined
        THEN IF value.t = "string" /\ StartsWith(value.s, "=")
             THEN LET r == evaluateFormula(value, NullRow)
                  IN  Ret(r.val, <<"nested">> \o r.trace)
             ELSE Ret(value, <<"field">>)
        ELSE IF StartsWith(trimmed, "=")
        THEN LET r == evaluateFormula(Str(trimmed), rowData)
             IN  Ret(r.val, <<"nested">> \o r.trace)
        ELSE Ret(Str(trimmed), <<"literal">>)

\* The callback of argsString.split(',').map(...): one argument resolved.
ResolveArg(arg, rowData) ==
    LET trimmed == Trim(arg)
    IN  IF rowData.t = "object" /\ GetProp(rowData, trimmed) # Undefined
        THEN Ret(GetProp(rowData, trimmed), <<"field">>)
        ELSE IF StartsWith(trimmed, "=")
        THEN LET r == evaluateFormula(Str(trimmed), rowData)
             IN  Ret(r.val, <<"nested">> \o r.trace)
        ELSE Ret(Str(trimmed), <<"literal">>)

\* The arguments resolved, none when the argument text is empty.
ResolveArgsOfNonEmpty(argsString, rowData) ==
    LET pieces == IF Len(argsString) = 0 THEN <<>> ELSE Split(argsString, ",")
    IN  [i \in 1..Len(pieces) |-> ResolveArg(pieces[i], rowData)]

\* argsString.split(',').map(...): every argument resolved, in order.
ResolveArgs(argsString, rowData) ==
    LET pieces == Split(argsString, ",")
    IN  [i \in 1..Len(pieces) |-> ResolveArg(pieces[i], rowData)]

Values(resolved) == [i \in 1..Len(resolved) |-> resolved[i].val]

RECURSIVE Traces(_)
Traces(resolved) ==
    IF resolved = <<>> THEN <<>> ELSE Head(resolved).trace \o Traces(Tail(resolved))

evaluateFormula(formula, rowData) ==
    IF PassThrough(formula) THEN Ret(formula, <<>>)
    ELSE IF formula.t # "string"
    THEN Catch(Ret(Throw, <<>>))  \* formula.match is not a function
    ELSE LET functionMatch == FunctionMatch(formula.s)
         IN  IF ~functionMatch.ok THEN Ret(formula, <<>>)
             ELSE IF functionMatch.functionName \notin FORMULA_FUNCTIONS
             THEN Ret(UnknownFunction(functionMatch.functionName), <<>>)
             ELSE LET resolved == ResolveArgs(functionMatch.argsString, rowData)
                      r == Apply(functionMatch.functionName, Values(resolved))
                  IN  Catch(Ret(r.val,
                                Traces(resolved)
                                    \o <<functionMatch.functionName>> \o r.trace))

(***************************************************************************)
(* hasCircularReference and getFormulaDependencies                         *)
(***************************************************************************)
LowerCase == {"a", "b", "c", "d", "e", "f", "g", "h", "i", "j", "k", "l", "m",
              "n", "o", "p", "q", "r", "s", "t", "u", "v", "w", "x", "y", "z"}

\* The characters \w matches.
IsWordChar(c) == c \in UpperCase \cup LowerCase \cup {"_"} \/ IsDigit(c)

\* \b at index i of s (1..Len(s)+1): exactly one of the characters before
\* and at i is a word character; beyond either end there is none.
IsWordAt(s, i) == i >= 1 /\ i <= Len(s) /\ IsWordChar(CharAt(s, i))
WordBoundary(s, i) == IsWordAt(s, i - 1) # IsWordAt(s, i)

\* One character of the interpolated field text, read as a pattern: '.' is
\* any character but a line terminator, a word character is itself.  The
\* field names of this model hold no other pattern syntax.
AtomMatches(p, c) == IF p = "." THEN c \notin LineTerminators ELSE p = c

\* The test finding the field only right after a '('.
RegExpTestAfterParen(field, text) ==
    \E i \in 2..(Len(text) + 1) :
        /\ CharAt(text, i - 1) = "("
        /\ i + Len(field) - 1 <= Len(text)
        /\ SubSeq(text, i, i + Len(field) - 1) = field
        /\ WordBoundary(text, i + Len(field))

\* new RegExp(`\\b${field}\\b`).test(text)
RegExpTest(field, text) ==
    \E i \in 1..(Len(text) + 1) :
        /\ WordBoundary(text, i)
        /\ i + Len(field) - 1 <= Len(text)
        /\ \A j \in 1..Len(field) : AtomMatches(CharAt(field, j), CharAt(text, i + j - 1))
        /\ WordBoundary(text, i + Len(field))

\* hasCircularReference looking for the field name anywhere in the text.
hasCircularReferenceAnywhere(formula, fieldName) ==
    IF ~ToBoolean(formula) \/ formula.t # "string" THEN FALSE
    ELSE \E i \in 1..(Len(formula.s) - Len(fieldName) + 1) :
             SubSeq(formula.s, i, i + Len(fieldName) - 1) = fieldName

\* hasCircularReference
hasCircularReference(formula, fieldName) ==
    IF ~ToBoolean(formula) \/ formula.t # "string" THEN FALSE
    ELSE RegExpTest(fieldName, formula.s)

\* The allFields argument: an array of strings, null or undefined.
ArrayOf(items) == [t |-> "array", items |-> items]
NullArray == [t |-> "null", items |-> <<>>]
UndefinedArray == [t |-> "undefined", items |-> <<>>]

\* The callback of allFields.forEach pushing onto allFields as well.
PushAliased(arrays, formula, field) ==
    IF RegExpTest(field, formula.s)
    THEN [dependencies |-> Append(arrays.dependencies, field),
          allFields |-> Append(arrays.allFields, field)]
    ELSE arrays

\* The callback of allFields.forEach: the two arrays after one field.
PushDependency(arrays, formula, field) ==
    IF RegExpTest(field, formula.s)
    THEN [arrays EXCEPT !.dependencies = Append(@, field)]
    ELSE arrays

\* allFields.forEach over the elements i.. of the array as it was at the call.
RECURSIVE ForEachField(_, _, _, _)
ForEachField(arrays, formula, items, i) ==
    IF i > Len(items) THEN arrays
    ELSE ForEachField(PushDependency(arrays, formula, items[i]), formula, items, i + 1)

\* getFormulaDependencies: the array returned and allFields after the call.
getFormulaDependencies(formula, allFields) ==
    IF ~ToBoolean(formula) \/ formula.t # "string" \/ allFields.t # "array"
    THEN [dependencies |-> <<>>, allFields |-> allFields.items]
    ELSE ForEachField([dependencies |-> <<>>, allFields |-> allFields.items],
                      formula, allFields.items, 1)

(***************************************************************************)
(* DataTable: the render function of a column of type 'formula'.           *)
(***************************************************************************)
\* String.prototype.startsWith and endsWith.
StartsWithText(s, prefix) == Len(s) >= Len(prefix) /\ SubSeq(s, 1, Len(prefix)) = prefix
EndsWithText(s, suffix) ==
    Len(s) >= Len(suffix) /\ SubSeq(s, Len(s) - Len(suffix) + 1, Len(s)) = suffix

\* fields.reduce((acc, field) => acc + (parseFloat(record[field.trim()]) || 0), acc)
RECURSIVE ReduceFields(_, _, _)
ReduceFields(fields, record, acc) ==
    IF fields = <<>> THEN acc
    ELSE LET p == parseFloat(GetProp(record, Trim(Head(fields))))
         IN  IF p = Throw THEN Throw
             ELSE ReduceFields(Tail(fields), record, Plus(acc, OrZero(p)))

\* render(text, record) of the column: the child of the span it returns.
render(formulaEnabled, columnFormula, text, record) ==
    IF ~formulaEnabled THEN text
    ELSE LET formula == IF ToBoolean(columnFormula) THEN columnFormula ELSE Str("")
         IN  IF ~ToBoolean(formula) THEN text
             ELSE IF formula.t # "string" THEN Str("Error")
             ELSE IF StartsWithText(formula.s, "=SUM(") /\ EndsWithText(formula.s, ")")
             THEN LET fields == Split(SubSeq(formula.s, 6, Len(formula.s) - 1), ",")
                      sum == ReduceFields(fields, record, Num(0))
                  IN  IF sum = Throw THEN Str("Error") ELSE sum
             ELSE text

(***************************************************************************)
(* DataTable: the rows, row reordering and row deletion.  A row is an item *)
(* of the data given to the table with its key; key and id are JavaScript  *)
(* values, undefined when the item has none.                               *)
(***************************************************************************)
Item(key, id, name) == [key |-> key, id |-> id, name |-> name]

\* initialData.map((item, index) => ({...item, key: item.key || item.id || index.toString()}))
dataWithKeys(initialData) ==
    [i \in 1..Len(initialData) |->
        LET item == initialData[i]
        IN  [item EXCEPT !.key = IF ToBoolean(item.key) THEN item.key
                                 ELSE IF ToBoolean(item.id) THEN item.id
                                 ELSE Str(NatToString(i - 1))]]

\* dataSource.findIndex(item => item.key === selectedKey), counted from 0.
findIndex(dataSource, selectedKey) ==
    LET found == {i \in 1..Len(dataSource) : dataSource[i].key = selectedKey}
    IN  IF found = {} THEN -1
        ELSE (CHOOSE i \in found : \A j \in found : i <= j) - 1

\* newData.splice(index, 1): the array without the element at index.
SpliceOut(data, index) == SubSeq(data, 1, index) \o SubSeq(data, index + 2, Len(data))

\* newData.splice(newIndex, 0, item): item put in at newIndex.
SpliceIn(data, newIndex, item) ==
    SubSeq(data, 1, newIndex) \o <<item>> \o SubSeq(data, newIndex + 1, Len(data))

\* The callback a handler calls, with its arguments; none when it calls none.
NoCallback == [fn |-> "none", key |-> Undefined, newData |-> <<>>]
onUpdate(newData) == [fn |-> "onUpdate", key |-> Undefined, newData |-> newData]
onDelete(key, newData) == [fn |-> "onDelete", key |-> key, newData |-> newData]

\* What a handler leaves behind: the dataSource it set and the callback.
Done(dataSource, callback) == [dataSource |-> dataSource, callback |-> callback]

\* moveRow moving the first row up to the end and the last row down to the
\* front.
moveRowAround(dataSource, selectedRowKeys, direction) ==
    IF Len(selectedRowKeys) # 1 THEN Done(dataSource, NoCallback)
    ELSE LET index == findIndex(dataSource, selectedRowKeys[1])
         IN  IF index = -1 THEN Done(dataSource, NoCallback)
             ELSE LET newIndex == IF direction = "up"
                                  THEN (index - 1) % Len(dataSource)
                                  ELSE (index + 1) % Len(dataSource)
                      item == dataSource[index + 1]
                      newData == SpliceIn(SpliceOut(dataSource, index), newIndex, item)
                  IN  Done(newData, onUpdate(newData))

\* moveRow
moveRow(dataSource, selectedRowKeys, direction) ==
    IF Len(selectedRowKeys) # 1 THEN Done(dataSource, NoCallback)
    ELSE LET selectedKey == selectedRowKeys[1]
             index == findIndex(dataSource, selectedKey)
         IN  IF index = -1 THEN Done(dataSource, NoCallback)
             ELSE IF ~(direction = "up" /\ index > 0)
                     /\ ~(direction = "down" /\ index < Len(dataSource) - 1)
             THEN Done(dataSource, NoCallback)
             ELSE LET newIndex == IF direction = "up" /\ index > 0
                                  THEN index - 1 ELSE index + 1
                      item == dataSource[index + 1]
                      newData == SpliceIn(SpliceOut(dataSource, index), newIndex, item)
                  IN  Done(newData, onUpdate(newData))

\* handleDelete removing the first row with the key only.
handleDeleteFirst(dataSource, currentRecord) ==
    LET index == findIndex(dataSource, currentRecord.key)
        newData == IF index = -1 THEN dataSource ELSE SpliceOut(dataSource, index)
    IN  Done(newData, onDelete(currentRecord.key, newData))

\* handleDelete
handleDelete(dataSource, currentRecord) ==
    LET Others(item) == item.key # currentRecord.key
        newData == SelectSeq(dataSource, Others)
    IN  Done(newData, onDelete(currentRecord.key, newData))

(***************************************************************************)
(* The inputs the checks range over.                                       *)
(***************************************************************************)
\* Values a field of a row holds: the numbers 0..MaxNum, text, numeric
\* text, null, a boolean, and a Symbol (on which parseFloat throws).
FieldValues ==
    {Num(n) : n \in 0..MaxNum} \cup {Str("x"), Str("2"), Null, Bool(TRUE), Symbol}

\* The scalars of the documented row data model.
IsScalar(v) == v.t \in {"number", "string", "boolean", "null"}

Props(keys) == [keys -> FieldValues]

\* Fields c and d hold fixed, distinct values where present.
OtherFields == ("c" :> Num(MaxNum + 1)) @@ ("d" :> Str("y"))

Rows ==
    {RowObject(ab @@ OtherFields) :
        ab \in Props({"a", "b"}) \cup Props({"a"}) \cup Props({"b"}) \cup Props({})}
    \cup {RowObject(NoProps), NullRow, UndefinedRow}

\* The rows of the worked examples.
ExampleRows ==
    {RowObject(("a" :> Num(5)) @@ ("b" :> Num(2))),
     RowObject(("a" :> Num(2)) @@ ("b" :> Num(3))),
     RowObject(("a" :> Num(2)) @@ ("b" :> Num(4)) @@ ("c" :> Num(6))),
     RowObject(("a" :> Num(1)) @@ ("b" :> Num(2)) @@ ("c" :> Num(3))),
     RowObject(("a" :> Str("x")) @@ ("b" :> Str("x"))),
     RowObject(("a" :> Str("=SUM(a)")) @@ ("b" :> Str("=SUM(a,c)")) @@ ("c" :> Num(1))),
     RowObject(("a" :> Str("Unknown function: ABS")) @@ ("b" :> Num(1)))}

\* Inputs that are no formula: falsy, no string, or no leading '='.
NonFormulas ==
    {Null, Undefined, Num(0), Num(1), NaN, Bool(FALSE), Bool(TRUE), Symbol,
     Str(""), Str("a"), Str("SUM(a,b)"), Str(" =SUM(a,b)"), Str("a=b")}

\* Texts with a leading '=' that are no =NAME(args) anchored at both ends.
Malformed ==
    {"=", "=SUM", "=SUM(", "=SUM(a", "=SUM(a,b", "=SUM a,b)", "=(a,b)",
     "=sum(a,b)", "=Sum(a,b)", "=sUM(a,b)", "=SUM2(a,b)", "= SUM(a,b)",
     "==SUM(a,b)", "=SUM(a,b) ", "=SUM(a,b)x", "=SUM(a,b)+1", "=SUM(a,\nb)",
     "=SUM(a,b)\n"}

\* Texts with unbalanced or repeated parentheses that end in ')'.
ExtraParens == {"=SUM(a,b))", "=SUM((a,b)", "=SUM(a)+SUM(b)", "=COUNT(a)(b)"}

\* Argument texts: a field, a padded field, a numeric literal and a nested
\* formula.  Names no row has and nested formulas of an unknown name are
\* among the Examples.
Atoms == {"a", " b ", "2", "=SUM(a)"}

RECURSIVE Join(_)
Join(args) ==
    IF args = <<>> THEN ""
    ELSE IF Len(args) = 1 THEN args[1]
    ELSE args[1] \o "," \o Join(Tail(args))

ArgLists == UNION {[1..n -> Atoms] : n \in 0..MaxArgs}

Call(name, args) == "=" \o name \o "(" \o Join(args) \o ")"

Names == FORMULA_FUNCTIONS \cup {"ABS"}

Calls == {Call(name, args) : name \in Names, args \in ArgLists}

Conditions == {"a>b", "a<b", "a=b", " a = b ", "2>1", "1<2", "1>2", "x=x",
               "1=1=1", "a", "zz", "", "0"}

IfCalls ==
    {Call("IF", <<c, "a", "b">>) : c \in Conditions}
    \cup {Call("IF", <<c, "c", "d">>) : c \in Conditions}
    \cup {Call("IF", <<c, "c", "d", "a">>) : c \in Conditions}

Examples ==
    {"=SUM(a,b)", "=AVG(a,b,c)", "=AVG()", "=MIN(a,b)", "=MAX(a,b)",
     "=COUNT(a,b,c)", "=IF(a>b,a,b)", "=IF(a=b,a,b)", "=IF(a,b)",
     "=UNKNOWNFUNC(a)", "=SUMS(a,b)", "=I(=SUM(a))",
     "=SUM(=SUM(a,b),c)", "=SUM(=SUM(a),c)", "=SUM(=MAX(a),c)",
     "=SUM(toString,a)", "=SUM(-1,7x, 2 ,a)", "=IF(1,toString,b)", "=IF(1,=SUM(a),b)",
     "=SUM(=ABS(a),c)", "=IF(1,=ABS(a),b)",
     "=SUM(a,zz)", "=AVG(a,zz)", "=MIN(a,zz)", "=MAX(zz,a)", "=COUNT(zz)",
     "=SUM(a)", "=SUM(b,c)", "=SUM(=SUM(=SUM(a)))", "=SUM(=SUM(=MAX(a)),=SUM(b), c)",
     "=MIN(Infinity)", "=MAX(-Infinity)", "=MIN(,)", "=MAX(,a)",
     "=IF(1,Unknown function: ABS,b)", "Unknown function: ABS", "=IF(1,a,b)",
     "=AVG(=ABS(a),c)", "=MIN(=ABS(a),c)", "=MAX(=ABS(a),c)", "=MAX(=SUM(a,b)",
     "=IF(1,a,b,=ABS(a))", "=IF(a>b,a,b,c,d)", "=IF(0,a,b,toString)"}

Formulas ==
    NonFormulas
    \cup {Str(s) : s \in Malformed \cup ExtraParens \cup Calls \cup IfCalls \cup Examples}

\* Field names given to the analyzer: names of word characters, and one
\* with a '.' as in a qualified column name.
KnownNames == {"price", "tax", "name", "a.b"}
FieldNames == KnownNames \cup {"total", "fee"}

MaxFields == 2

FieldLists ==
    {ArrayOf(items) : items \in UNION {[1..n -> KnownNames] : n \in 0..MaxFields}}
    \cup {ArrayOf(<<"price", "tax", "name">>), NullArray, UndefinedArray}

AnalyzerFormulas ==
    {Str(f) : f \in {"=SUM(price,tax)", "=SUM(tax,price)", "=SUM(total,fee)", "=SUM(fee)",
                     "=SUM(subtotal)", "=SUM(prices, tax_rate)", "=SUM(a.b,name)",
                     "=SUM(axb)", "=IF(price>tax,name,fee)", "price", ""}}
    \cup {Null, Undefined, Num(1)}

\* Formula columns: the formula of the column, the records it is rendered
\* for and the dataIndex of the column.
RenderArgs == {<<>>, <<"a">>, <<"a", "b">>, <<"a", " b ", "c">>, <<"a", "2">>, <<"a", "zz">>,
               <<"=SUM(a)", "b">>, <<"toString">>}

RenderFormulas ==
    NonFormulas \cup {Str(s) : s \in Examples \cup Malformed}
    \cup {Str(Call(name, args)) : name \in FORMULA_FUNCTIONS \cup {"ABS"}, args \in RenderArgs}

Records == {r \in Rows \cup ExampleRows : r.t = "object"}

dataIndex == "d"

\* The data given to the table: up to MaxRows items, each with no key and
\* no id, with a key, or with an id that is the index of the second row.
MaxRows == 3

ItemShapes == {<<Undefined, Undefined>>, <<Str("k"), Undefined>>, <<Undefined, Str("1")>>}

InitialData ==
    UNION {{[i \in 1..n |-> Item(shapes[i][1], shapes[i][2], "r" \o NatToString(i - 1))] :
               shapes \in [1..n -> ItemShapes]} : n \in 0..MaxRows}

\* The key arrays the table's rowSelection can report: none, one row's key,
\* or the keys of two rows.
Selections(data) ==
    {<<>>} \cup {<<data[i].key>> : i \in 1..Len(data)}
    \cup {<<data[i].key, data[j].key>> : i \in 1..Len(data), j \in 1..Len(data)}

\* Object.keys(row), for the analyzer given the keys of the row it is
\* evaluated on: the keys in one order.
KeysOf(row) ==
    LET keys == DOMAIN row.props
    IN  CHOOSE seq \in [1..Cardinality(keys) -> keys] : \A k \in keys : \E i \in DOMAIN seq : seq[i] = k

KeyedFormulas == {Str(s) : s \in Examples \cup IfCalls}

AnalyzerRows ==
    {RowObject(("price" :> Num(1)) @@ ("tax" :> Num(2)) @@ ("name" :> Str("x"))), NullRow}

(***************************************************************************)
(* One call of each exported function: the arguments, then the value       *)
(* returned.  functionTable is the FORMULA_FUNCTIONS object.               *)
(***************************************************************************)
VARIABLES formula, rowData, result, pc, allFields, fieldName, deps, circular,
          functionTable

\* The formula column being rendered: formula is column.formula, rowData
\* the record, text the record's value at the column's dataIndex.
VARIABLES formulaEnabled, text, rendered

\* The DataTable component: its initialData prop, its state, and the
\* callback prop the last handler called.
VARIABLES initialData, dataSource, selectedRowKeys, currentRecord, isDeleteModalVisible,
          callback

tableVars == <<initialData, dataSource, selectedRowKeys, currentRecord,
               isDeleteModalVisible, callback>>

parserVars == <<formula, rowData, result, pc, allFields, fieldName, deps, circular,
                functionTable>>
renderVars == <<formulaEnabled, text, rendered>>

vars == <<parserVars, renderVars, tableVars>>

NoResult == Ret(Undefined, <<>>)
NoDeps == [called |-> FALSE, val |-> <<>>]
NoCircular == [called |-> FALSE, val |-> FALSE]
InitialTable == [name \in FORMULA_FUNCTIONS |-> name]
NoRender == [called |-> FALSE, val |-> Undefined]

\* No formula column is rendered.
RenderIdle == formulaEnabled = TRUE /\ text = Undefined /\ rendered = NoRender

\* useState(null) of currentRecord.
NullRecord == Item(Undefined, Undefined, "")

\* No table is mounted.
TableIdle ==
    /\ initialData = <<>>
    /\ dataSource = <<>>
    /\ selectedRowKeys = <<>>
    /\ currentRecord = NullRecord
    /\ isDeleteModalVisible = FALSE
    /\ callback = NoCallback

\* Nothing is given to the analyzer functions.
AnalyzerIdle ==
    /\ allFields = UndefinedArray
    /\ fieldName = ""
    /\ deps = NoDeps
    /\ circular = NoCircular

Init ==
    /\ \/ formula \in Formulas /\ rowData \in Rows
       \/ formula \in {Str(s) : s \in Examples} /\ rowData \in ExampleRows
    /\ result = NoResult
    /\ pc = "call"
    /\ functionTable = InitialTable
    /\ AnalyzerIdle
    /\ RenderIdle
    /\ TableIdle

Evaluate ==
    /\ pc = "call"
    /\ result' = evaluateFormula(formula, rowData)
    /\ pc' = "returned"
    /\ UNCHANGED <<formula, rowData, allFields, fieldName, deps, circular, functionTable>>
    /\ UNCHANGED <<renderVars, tableVars>>

GetDependencies ==
    /\ ~deps.called
    /\ LET r == getFormulaDependencies(formula, allFields)
       IN  /\ deps' = [called |-> TRUE, val |-> r.dependencies]
           /\ allFields' = [allFields EXCEPT !.items = r.allFields]
    /\ UNCHANGED <<formula, rowData, result, pc, fieldName, circular, functionTable>>
    /\ UNCHANGED <<renderVars, tableVars>>

HasCircular ==
    /\ ~circular.called
    /\ circular' = [called |-> TRUE, val |-> hasCircularReference(formula, fieldName)]
    /\ UNCHANGED <<formula, rowData, result, pc, allFields, fieldName, deps, functionTable>>
    /\ UNCHANGED <<renderVars, tableVars>>

InitAnalyzer ==
    /\ formula \in AnalyzerFormulas
    /\ rowData \in AnalyzerRows
    /\ allFields \in FieldLists
    /\ fieldName \in FieldNames
    /\ result = NoResult
    /\ pc = "call"
    /\ deps = NoDeps
    /\ circular = NoCircular
    /\ functionTable = InitialTable
    /\ RenderIdle
    /\ TableIdle

NextAnalyzer == Evaluate \/ GetDependencies \/ HasCircular

SpecAnalyzer == InitAnalyzer /\ [][NextAnalyzer]_vars

\* A formula evaluated on a row and analyzed against the keys of that row.
InitKeyed ==
    /\ formula \in KeyedFormulas
    /\ rowData \in Records
    /\ allFields = ArrayOf(KeysOf(rowData))
    /\ fieldName = ""
    /\ result = NoResult
    /\ pc = "call"
    /\ deps = NoDeps
    /\ circular = NoCircular
    /\ functionTable = InitialTable
    /\ RenderIdle
    /\ TableIdle

NextKeyed == Evaluate \/ GetDependencies

SpecKeyed == InitKeyed /\ [][NextKeyed]_vars

\* The table renders the cell of a formula column for one record.
Render ==
    /\ ~rendered.called
    /\ rendered' = [called |-> TRUE, val |-> render(formulaEnabled, formula, text, rowData)]
    /\ UNCHANGED <<parserVars, formulaEnabled, text, tableVars>>

InitRender ==
    /\ formula \in RenderFormulas
    /\ rowData \in Records
    /\ formulaEnabled \in BOOLEAN
    /\ text = GetProp(rowData, dataIndex)
    /\ rendered = NoRender
    /\ result = NoResult
    /\ pc = "call"
    /\ functionTable = InitialTable
    /\ AnalyzerIdle
    /\ TableIdle

NextRender == Render \/ Evaluate

SpecRender == InitRender /\ [][NextRender]_vars

\* rowSelection.onChange: setSelectedRowKeys with the keys the table reports.
SetSelectedRowKeys(keys) ==
    /\ selectedRowKeys' = keys
    /\ callback' = NoCallback
    /\ UNCHANGED <<initialData, dataSource, currentRecord, isDeleteModalVisible>>
    /\ UNCHANGED <<parserVars, renderVars>>

\* A click on Move Up or Move Down.
MoveRow(direction) ==
    /\ LET done == moveRow(dataSource, selectedRowKeys, direction)
       IN  dataSource' = done.dataSource /\ callback' = done.callback
    /\ UNCHANGED <<initialData, selectedRowKeys, currentRecord, isDeleteModalVisible>>
    /\ UNCHANGED <<parserVars, renderVars>>

\* A click on the delete button of the row record.
ShowDeleteConfirm(record) ==
    /\ currentRecord' = record
    /\ isDeleteModalVisible' = TRUE
    /\ callback' = NoCallback
    /\ UNCHANGED <<initialData, dataSource, selectedRowKeys>>
    /\ UNCHANGED <<parserVars, renderVars>>

\* OK of the delete modal, which is open.
HandleDelete ==
    /\ isDeleteModalVisible
    /\ LET done == handleDelete(dataSource, currentRecord)
       IN  dataSource' = done.dataSource /\ callback' = done.callback
    /\ isDeleteModalVisible' = FALSE
    /\ UNCHANGED <<initialData, selectedRowKeys, currentRecord>>
    /\ UNCHANGED <<parserVars, renderVars>>

\* Cancel of the delete modal, which is open.
CancelDelete ==
    /\ isDeleteModalVisible
    /\ isDeleteModalVisible' = FALSE
    /\ callback' = NoCallback
    /\ UNCHANGED <<initialData, dataSource, selectedRowKeys, currentRecord>>
    /\ UNCHANGED <<parserVars, renderVars>>

\* The table mounted with its data: the state after the first effect.
InitTable ==
    /\ initialData \in InitialData
    /\ dataSource = dataWithKeys(initialData)
    /\ selectedRowKeys = <<>>
    /\ currentRecord = NullRecord
    /\ isDeleteModalVisible = FALSE
    /\ callback = NoCallback
    /\ formula = Undefined
    /\ rowData = UndefinedRow
    /\ result = NoResult
    /\ pc = "idle"
    /\ functionTable = InitialTable
    /\ AnalyzerIdle
    /\ RenderIdle

NextTable ==
    \/ \E keys \in Selections(dataSource) : SetSelectedRowKeys(keys)
    \/ \E direction \in {"up", "down"} : MoveRow(direction)
    \/ \E i \in 1..Len(dataSource) : ShowDeleteConfirm(dataSource[i])
    \/ HandleDelete
    \/ CancelDelete

SpecTable == InitTable /\ [][NextTable]_vars

Next == Evaluate

Spec == Init /\ [][Next]_vars

(***************************************************************************)
(* Vocabulary of the properties, stated on the text of the formula and     *)
(* not through the parser's own operators.                                 *)
(***************************************************************************)
Returned == pc = "returned"

IsText == formula.t = "string"

Range(seq) == {seq[i] : i \in 1..Len(seq)}

Count(s, c) == Cardinality({i \in 1..Len(s) : CharAt(s, i) = c})

\* The lengths k for which s is '=', k upper-case letters, '(', any text
\* without a line terminator, and ')' as its last character.
NameLengths(s) ==
    {k \in 1..(Len(s) - 3) :
        /\ CharAt(s, 1) = "="
        /\ \A i \in 2..(k + 1) : CharAt(s, i) \in UpperCase
        /\ CharAt(s, k + 2) = "("
        /\ CharAt(s, Len(s)) = ")"
        /\ \A i \in (k + 3)..(Len(s) - 1) : CharAt(s, i) \notin LineTerminators}

Matches(s) == NameLengths(s) # {}
NameOf(s) == SubSeq(s, 2, 1 + CHOOSE k \in NameLengths(s) : TRUE)
ArgsOf(s) == SubSeq(s, 3 + (CHOOSE k \in NameLengths(s) : TRUE), Len(s) - 1)

\* The formula is a call of the function name.
IsCallOf(name) == IsText /\ Matches(formula.s) /\ NameOf(formula.s) = name

\* The number of comma-separated arguments written in the call.
NumArgs == Count(ArgsOf(formula.s), ",") + 1

\* The values the arguments of the call resolve to against the row.
ArgValues == Values(ResolveArgs(ArgsOf(formula.s), rowData))

HasFields(keys) == rowData.t = "object" /\ keys \subseteq DOMAIN rowData.props
Field(k) == rowData.props[k]

ExampleRow(props) == rowData = RowObject(props)

\* The number an argument counts for: what it parses to, 0 when it does not
\* parse as a number.
NumberOf(v) ==
    LET p == parseFloat(v)
    IN  IF p.t = "number" /\ ~IsNaN(p) THEN p ELSE Num(0)

RECURSIVE SumOf(_)
SumOf(vals) ==
    IF vals = <<>> THEN Num(0)
    ELSE Plus(SumOf(SubSeq(vals, 1, Len(vals) - 1)), NumberOf(vals[Len(vals)]))

\* The function dispatched by the call raises an exception.
Raises ==
    /\ IsText /\ Matches(formula.s) /\ NameOf(formula.s) \in FORMULA_FUNCTIONS
    /\ Apply(NameOf(formula.s), ArgValues).val = Throw

JsTypes == {"number", "string", "boolean", "null", "undefined", "symbol", "function"}

(***************************************************************************)
(* C1: evaluateFormula never lets an exception reach its caller: for every *)
(* formula value and every row (null and undefined too) the call returns a *)
(* JavaScript value, and when the dispatched function raises an exception  *)
(* the value returned is exactly the string "Error".                       *)
(***************************************************************************)
C1_NoFaultCrosses ==
    Returned =>
        /\ result.val.t \in JsTypes
        /\ Raises => result.val = Str("Error")

C1_Witness == Returned /\ Raises /\ result.val = Str("Error")

(***************************************************************************)
(* C2: a nested formula argument is evaluated against the same row and its *)
(* value is the argument: =SUM(inner,c) is the SUM of the value of inner   *)
(* and of field c, so =SUM(=SUM(a,b),c) on {a:1,b:2,c:3} is 6.  The code   *)
(* splits the argument text at every comma, also inside the nested call.   *)
(***************************************************************************)
C2_NestedEvaluated ==
    Returned /\ HasFields({"a", "b", "c"})
             /\ (\A k \in {"a", "b", "c"} : Field(k).t = "number") =>
        \A inner \in {"=SUM(a)", "=MAX(a)", "=SUM(a,b)"} :
            formula = Str("=SUM(" \o inner \o ",c)") =>
                result.val = SUM(<<evaluateFormula(Str(inner), rowData).val, Field("c")>>).val

(***************************************************************************)
(* C3: =IF(a>b,a,b) returns the value of a when the number in field a is   *)
(* greater than the number in field b and the value of b otherwise, and    *)
(* =IF(a<b,a,b) the same for <.  The code compares the names, not the      *)
(* fields' values.                                                         *)
(***************************************************************************)
C3_IfNumericComparison ==
    Returned /\ HasFields({"a", "b"})
             /\ Field("a").t = "number" /\ Field("b").t = "number" =>
        /\ formula = Str("=IF(a>b,a,b)") =>
               result.val = IF Field("a").n > Field("b").n THEN Field("a") ELSE Field("b")
        /\ formula = Str("=IF(a<b,a,b)") =>
               result.val = IF Field("a").n < Field("b").n THEN Field("a") ELSE Field("b")

(***************************************************************************)
(* C4: =IF(a=b,c,d) returns the value of c when fields a and b hold equal  *)
(* strings and the value of d otherwise.  The code compares the names.     *)
(***************************************************************************)
C4_IfStringEquality ==
    Returned /\ HasFields({"a", "b", "c", "d"})
             /\ Field("a").t = "string" /\ Field("b").t = "string"
             /\ formula = Str("=IF(a=b,c,d)") =>
        result.val = IF Field("a").s = Field("b").s THEN Field("c") ELSE Field("d")

(***************************************************************************)
(* C5: an input that is no string, is the empty string, or is a string     *)
(* whose first character is not '=' is returned unchanged, whatever the    *)
(* row, and nothing is resolved or dispatched.                             *)
(***************************************************************************)
C5_NonFormulaUnchanged ==
    Returned /\ (formula.t # "string" \/ formula.s = "" \/ SubSeq(formula.s, 1, 1) # "=") =>
        result = Ret(formula, <<>>)

C5_Witness == Returned /\ formula = Str(" =SUM(a,b)") /\ result.val = formula

(***************************************************************************)
(* C6 as claimed: a text with a leading '=' that is not '=', an upper-case *)
(* name, '(' and arguments closed by the matching ')' at the very end      *)
(* (extra or unbalanced parentheses and text after the closing parenthesis *)
(* included) is returned verbatim and nothing is dispatched.               *)
(***************************************************************************)
Depth(s, i) == Count(SubSeq(s, 1, i), "(") - Count(SubSeq(s, 1, i), ")")

ClaimedForm(s) ==
    /\ Matches(s)
    /\ \A i \in 1..(Len(s) - 1) : Count(SubSeq(s, 1, i), "(") >= 1 => Depth(s, i) >= 1
    /\ Depth(s, Len(s)) = 0

C6_AnyDeviationVerbatim ==
    Returned /\ IsText /\ StartsWith(formula.s, "=") /\ ~ClaimedForm(formula.s) =>
        result = Ret(formula, <<>>)

(***************************************************************************)
(* C6 as amended: a text with a leading '=' that does not match the        *)
(* pattern of the parser ('=', upper-case letters, an opening parenthesis, *)
(* any text on one line, a closing parenthesis as the last character) is   *)
(* returned verbatim and nothing is dispatched; a text that matches with a *)
(* name of the table is dispatched to that function, however its           *)
(* parentheses nest.                                                       *)
(***************************************************************************)
C6_MismatchVerbatim ==
    Returned /\ IsText /\ StartsWith(formula.s, "=") =>
        /\ ~Matches(formula.s) => result = Ret(formula, <<>>)
        /\ Matches(formula.s) /\ NameOf(formula.s) \in FORMULA_FUNCTIONS =>
               NameOf(formula.s) \in Range(result.trace)

C6_Witness == Returned /\ formula = Str("=SUM(a,b)x") /\ result = Ret(formula, <<>>)

(***************************************************************************)
(* C7: a formula that matches the grammar with a name that is none of SUM, *)
(* AVG, MIN, MAX, COUNT, IF returns "Unknown function: NAME" for any row,  *)
(* and no argument is resolved and no nested formula evaluated.            *)
(***************************************************************************)
C7_UnknownFunction ==
    Returned /\ IsText /\ Matches(formula.s)
             /\ NameOf(formula.s) \notin {"SUM", "AVG", "MIN", "MAX", "COUNT", "IF"} =>
        result = Ret(Str("Unknown function: " \o NameOf(formula.s)), <<>>)

C7_Witness ==
    /\ Returned /\ formula = Str("=ABS(=SUM(a),a)")
    /\ result = Ret(Str("Unknown function: ABS"), <<>>)

(***************************************************************************)
(* C8: IF written with fewer than three arguments returns null for any row *)
(* and the condition is not evaluated.                                     *)
(***************************************************************************)
C8_IfArity ==
    Returned /\ IsCallOf("IF") /\ NumArgs < 3 =>
        /\ result.val = Null
        /\ "evaluateCondition" \notin Range(result.trace)

C8_Witness == Returned /\ formula = Str("=IF(a,b)") /\ HasFields({"a", "b"}) /\ result.val = Null

(***************************************************************************)
(* C9: SUM returns the sum of its resolved arguments coerced to numbers,   *)
(* an argument that does not parse as a number (a name no row has, text,   *)
(* null, a boolean) counting 0 and a numeric literal its value, for rows   *)
(* of scalars; =SUM(a,b) on {a:2,b:3} is 5.                                *)
(***************************************************************************)
C9_Sum ==
    Returned /\ IsCallOf("SUM") /\ (\A v \in Range(ArgValues) : IsScalar(v)) =>
        /\ result.val = SumOf(ArgValues)
        /\ formula = Str("=SUM(a,b)") /\ ExampleRow(("a" :> Num(2)) @@ ("b" :> Num(3))) =>
               result.val = Num(5)

C9_Witness ==
    /\ Returned /\ formula = Str("=SUM(-1,7x, 2 ,a)")
    /\ HasFields({"a", "b"}) /\ Field("a") = Null
    /\ result.val = Num(8)

(***************************************************************************)
(* C10: AVG returns the SUM of its arguments divided by the number of      *)
(* arguments and never divides by zero: =AVG(a,b,c) on {a:2,b:4,c:6} is 4  *)
(* and =AVG() on {} is 0.                                                  *)
(***************************************************************************)
C10_Avg ==
    Returned /\ IsCallOf("AVG") /\ (\A v \in Range(ArgValues) : IsScalar(v)) =>
        /\ result.val = Rat(SumOf(ArgValues).n, SumOf(ArgValues).d * NumArgs)
        /\ result.val.d # 0
        /\ formula = Str("=AVG(a,b,c)")
             /\ ExampleRow(("a" :> Num(2)) @@ ("b" :> Num(4)) @@ ("c" :> Num(6))) =>
               result.val = Num(4)
        /\ formula = Str("=AVG()") /\ rowData = RowObject(NoProps) => result.val = Num(0)

C10_Witness ==
    /\ Returned /\ formula = Str("=AVG(a,b,c)")
    /\ ExampleRow(("a" :> Num(2)) @@ ("b" :> Num(4)) @@ ("c" :> Num(6)))
    /\ result.val = Num(4)

(***************************************************************************)
(* C11: MIN (MAX) returns the minimum (maximum) of its resolved arguments  *)
(* coerced to numbers, an argument that does not parse counting 0: the     *)
(* result is one of the coerced values and none is smaller (greater); on   *)
(* {a:5,b:2}, =MIN(a,b) is 2 and =MAX(a,b) is 5.                           *)
(***************************************************************************)
Coerced == {NumberOf(v) : v \in Range(ArgValues)}

C11_MinMax ==
    Returned /\ (IsCallOf("MIN") \/ IsCallOf("MAX"))
             /\ (\A v \in Range(ArgValues) : IsScalar(v)) =>
        /\ IsCallOf("MIN") =>
               result.val \in Coerced /\ \A x \in Coerced : ~NumLess(x, result.val)
        /\ IsCallOf("MAX") =>
               result.val \in Coerced /\ \A x \in Coerced : ~NumLess(result.val, x)
        /\ ExampleRow(("a" :> Num(5)) @@ ("b" :> Num(2))) =>
               /\ formula = Str("=MIN(a,b)") => result.val = Num(2)
               /\ formula = Str("=MAX(a,b)") => result.val = Num(5)

C11_Witness ==
    /\ Returned /\ formula = Str("=MIN(a,zz)")
    /\ HasFields({"a"}) /\ Field("a") = Num(2)
    /\ result.val = Num(0)

(***************************************************************************)
(* C12: COUNT returns the number of comma-separated arguments written in   *)
(* the formula, whatever the row and whatever each argument resolves to    *)
(* (a field, a nested formula, a literal, a Symbol): =COUNT(a,b,c) on {}   *)
(* is 3.                                                                   *)
(***************************************************************************)
C12_Count ==
    Returned /\ IsCallOf("COUNT") =>
        /\ result.val = Num(NumArgs)
        /\ formula = Str("=COUNT(a,b,c)") => result.val = Num(3)

C12_Witness ==
    Returned /\ formula = Str("=COUNT(a,b,c)") /\ rowData = RowObject(NoProps)
             /\ result.val = Num(3)


(***************************************************************************)
(* Vocabulary of the claims about the analyzer functions.                  *)
(***************************************************************************)
\* field stands in str as a whole word: the very characters of field, with
\* no word character right before or right after them.
OccursAsWord(field, str) ==
    \E i \in 1..(Len(str) - Len(field) + 1) :
        /\ SubSeq(str, i, i + Len(field) - 1) = field
        /\ ~IsWordAt(str, i - 1)
        /\ ~IsWordAt(str, i + Len(field))

IsNonEmptyString(v) == v.t = "string" /\ v.s # ""

WholeWordFields ==
    LET Occurs(field) == OccursAsWord(field, formula.s)
    IN  SelectSeq(allFields.items, Occurs)

(***************************************************************************)
(* C13: getFormulaDependencies returns exactly the entries of knownFields  *)
(* that stand in the formula as a whole word, in the order of knownFields, *)
(* and the empty list when the formula is empty or not a string or         *)
(* knownFields is absent; ("=SUM(price,tax)", [price, tax, name]) gives    *)
(* [price, tax].                                                           *)
(***************************************************************************)
C13_Dependencies ==
    deps.called =>
        /\ deps.val = IF IsNonEmptyString(formula) /\ allFields.t = "array"
                      THEN WholeWordFields ELSE <<>>
        /\ formula = Str("=SUM(price,tax)") /\ allFields.items = <<"price", "tax", "name">> =>
               deps.val = <<"price", "tax">>

(***************************************************************************)
(* C14: hasCircularReference is true exactly when fieldName stands in the  *)
(* formula as a whole word: ("=SUM(total,fee)", total) is true,            *)
(* ("=SUM(fee)", total) and ("=SUM(subtotal)", total) are false.           *)
(***************************************************************************)
C14_Circular ==
    circular.called =>
        /\ circular.val = (IsNonEmptyString(formula) /\ OccursAsWord(fieldName, formula.s))
        /\ formula = Str("=SUM(total,fee)") /\ fieldName = "total" => circular.val
        /\ formula \in {Str("=SUM(fee)"), Str("=SUM(subtotal)")} /\ fieldName = "total" =>
               ~circular.val

ArgNames ==
    LET parts == Split(ArgsOf(formula.s), ",")
    IN  [i \in 1..Len(parts) |-> Trim(parts[i])]

\* The column's formula calls a supported function on fields of the record
\* that hold numbers.
IsCallOnNumberFields ==
    /\ IsText /\ Matches(formula.s) /\ NameOf(formula.s) \in FORMULA_FUNCTIONS
    /\ \A i \in 1..Len(ArgNames) : HasFields({ArgNames[i]}) /\ Field(ArgNames[i]).t = "number"

\* The value of that call over the record.
ValueOverRecord == Apply(NameOf(formula.s), [i \in 1..Len(ArgNames) |-> Field(ArgNames[i])]).val

(***************************************************************************)
(* C17: with formulaEnabled true, the cell of a formula column shows the   *)
(* value of the column's formula over the record, for each of SUM, AVG,    *)
(* MIN, MAX, COUNT and IF.  The render computes =SUM(...) only and shows   *)
(* the record's own value at the column's dataIndex for the other five.    *)
(***************************************************************************)
C17_FormulaValueRendered ==
    rendered.called /\ formulaEnabled /\ IsCallOnNumberFields =>
        rendered.val = ValueOverRecord

(***************************************************************************)
(* Vocabulary of the claims about the table's rows.                        *)
(***************************************************************************)
\* The rows that carry the selected key, when exactly one key is selected.
SelectedRows ==
    IF Len(selectedRowKeys) # 1 THEN {}
    ELSE {i \in 1..Len(dataSource) : dataSource[i].key = selectedRowKeys[1]}

\* The row next to row i in the direction; 0 or Len + 1 when there is none.
Neighbour(i, direction) == IF direction = "up" THEN i - 1 ELSE i + 1

Swapped(data, i, j) == [data EXCEPT ![i] = data[j], ![j] = data[i]]

Occurrences(data, row) == Cardinality({i \in 1..Len(data) : data[i] = row})

IsPermutation(a, b) ==
    /\ Len(a) = Len(b)
    /\ \A row \in Range(a) \cup Range(b) : Occurrences(a, row) = Occurrences(b, row)

NothingMoved == dataSource' = dataSource /\ callback' = NoCallback

(***************************************************************************)
(* C18: a click on Move Up or Move Down with exactly one key selected      *)
(* swaps the row that carries the key with its neighbour in that direction *)
(* and leaves every other row at its index, and onUpdate gets the new      *)
(* data; with no key or several keys selected, with a selected key no row  *)
(* carries, and for the first row up or the last row down, the data stays  *)
(* as it is and onUpdate is not called.  Every move leaves a permutation   *)
(* of the rows before it.                                                  *)
(***************************************************************************)
C18_MoveRow ==
    [][\A direction \in {"up", "down"} :
          MoveRow(direction) =>
              /\ IsPermutation(dataSource', dataSource)
              /\ IF SelectedRows = {} THEN NothingMoved
                 ELSE \E i \in SelectedRows :
                          LET j == Neighbour(i, direction)
                          IN  IF j < 1 \/ j > Len(dataSource) THEN NothingMoved
                              ELSE /\ dataSource' = Swapped(dataSource, i, j)
                                   /\ callback' = onUpdate(dataSource')]_vars

C18_Witness ==
    /\ Len(dataSource) = 3 /\ Len(initialData) = 3
    /\ dataSource[1].name = "r1" /\ dataSource[2].name = "r0" /\ dataSource[3].name = "r2"
    /\ selectedRowKeys = <<dataSource[1].key>>
    /\ dataSource[1].key # dataSource[2].key
    /\ callback = onUpdate(dataSource)

(***************************************************************************)
(* C19: rows leave the table through the confirmation modal only.  A click *)
(* on a row's delete button records the row and opens the modal, and       *)
(* changes no data; rows are removed, and onDelete is called, only by OK   *)
(* of the open modal, which removes every row whose key is the recorded    *)
(* row's key, keeps the other rows in their order and closes the modal;    *)
(* Cancel closes the modal, leaves the data as it is and does not call     *)
(* onDelete.                                                               *)
(***************************************************************************)
C19_DeleteThroughModal ==
    [][/\ \A i \in 1..Len(dataSource) :
              ShowDeleteConfirm(dataSource[i]) =>
                  /\ currentRecord' = dataSource[i] /\ isDeleteModalVisible'
                  /\ dataSource' = dataSource /\ callback'.fn # "onDelete"
       /\ (~IsPermutation(dataSource', dataSource) \/ callback'.fn = "onDelete") =>
              /\ isDeleteModalVisible /\ ~isDeleteModalVisible'
              /\ LET Kept(row) == row.key # currentRecord.key
                 IN  dataSource' = SelectSeq(dataSource, Kept)
              /\ callback' = onDelete(currentRecord.key, dataSource')
       /\ CancelDelete =>
              /\ ~isDeleteModalVisible'
              /\ dataSource' = dataSource /\ callback'.fn # "onDelete"]_vars

\* OK removed the two rows that carried the key "1" and kept the third.
C19_Witness ==
    /\ Len(initialData) = 3 /\ Len(dataSource) = 1
    /\ dataSource[1].name = "r2"
    /\ currentRecord.key = Str("1")
    /\ callback = onDelete(Str("1"), dataSource)
    /\ ~isDeleteModalVisible

(***************************************************************************)
(* Vocabulary of the claim about the classification of arguments.          *)
(***************************************************************************)
IsKeyOfRow(name) == rowData.t = "object" /\ name \in DOMAIN rowData.props

\* What the argument written as name stands for: the row's value when name
\* is a key of the row, else the value of the nested formula when name
\* starts with '=', else the string name.
ClassifiedArg(name) ==
    IF IsKeyOfRow(name) THEN Field(name)
    ELSE IF StartsWith(name, "=") THEN evaluateFormula(Str(name), rowData).val
    ELSE Str(name)

ClassifiedArgs == [i \in 1..Len(ArgNames) |-> ClassifiedArg(ArgNames[i])]

(***************************************************************************)
(* C20: each comma-separated argument is classified on its trimmed text:   *)
(* a key of the row stands for the row's value (also when it starts with   *)
(* '='), else a text starting with '=' is evaluated as a nested formula on *)
(* the same row, else the trimmed text itself is the argument; so a name   *)
(* that is no key of the row is passed as that string, and the call        *)
(* returns what its function gives for the arguments so classified.  The   *)
(* code reads rowData[name], which also finds what every object inherits   *)
(* (toString, constructor, ...).                                           *)
(***************************************************************************)
C20_ArgumentsClassified ==
    Returned /\ IsText /\ Matches(formula.s) /\ NameOf(formula.s) \in FORMULA_FUNCTIONS =>
        LET r == Apply(NameOf(formula.s), ClassifiedArgs).val
        IN  result.val = IF r = Throw THEN Str("Error") ELSE r

(***************************************************************************)
(* Vocabulary of the claims about the condition of IF.                     *)
(***************************************************************************)
FirstAt(s, op) ==
    CHOOSE i \in 1..Len(s) : CharAt(s, i) = op /\ \A j \in 1..(i - 1) : CharAt(s, j) # op

Before(s, op) == SubSeq(s, 1, FirstAt(s, op) - 1)
After(s, op) == SubSeq(s, FirstAt(s, op) + 1, Len(s))

\* The right side of a comparison: all text after the first op when the
\* text is split once, else the text between the first op and the next.
RightSide(s, op, once) ==
    IF once \/ ~Includes(After(s, op), op) THEN After(s, op) ELSE Before(After(s, op), op)

\* The truth of a condition value, its right side taken as RightSide says.
ConditionValue(v, once) ==
    IF v.t = "boolean" THEN v.n = 1
    ELSE IF v.t = "string" /\ \E op \in {"=", ">", "<"} : Includes(v.s, op)
    THEN LET op == IF Includes(v.s, "=") THEN "="
                   ELSE IF Includes(v.s, ">") THEN ">" ELSE "<"
             l == Trim(Before(v.s, op))
             r == Trim(RightSide(v.s, op, once))
         IN  IF op = "=" THEN l = r
             ELSE IF op = ">" THEN NumLess(ParseFloatString(r), ParseFloatString(l))
             ELSE NumLess(ParseFloatString(l), ParseFloatString(r))
    ELSE ToBoolean(v)

IsIfOfThree == IsCallOf("IF") /\ NumArgs >= 3

(***************************************************************************)
(* C21, as stated: IF takes its second argument when its condition holds   *)
(* and its third otherwise, where a boolean holds as it is, a string with  *)
(* '=', '>' or '<' (in that priority) is split once at the first           *)
(* occurrence, the right side being all remaining text, and compared (text *)
(* equality for '=', numbers for '>' and '<'), and any other value holds   *)
(* by truthiness.                                                          *)
(***************************************************************************)
C21_ConditionSplitOnce ==
    Returned /\ IsIfOfThree =>
        result.val = IF ConditionValue(ArgValues[1], TRUE) THEN ArgValues[2] ELSE ArgValues[3]

(***************************************************************************)
(* C21, amended: as above, but the string is split at every occurrence of  *)
(* the operator and the first two pieces are compared, so the right side   *)
(* ends at the second occurrence: "1=1=1" compares "1" with "1".           *)
(***************************************************************************)
C21_ConditionFirstTwoPieces ==
    Returned /\ IsIfOfThree =>
        result.val = IF ConditionValue(ArgValues[1], FALSE) THEN ArgValues[2] ELSE ArgValues[3]

C21_Witness ==
    /\ Returned /\ formula = Str("=IF(1=1=1,a,b)")
    /\ HasFields({"a", "b"}) /\ Field("a") = Num(1) /\ Field("b") = Num(2)
    /\ result.val = Num(1)

(***************************************************************************)
(* C22: a call written with nothing between its parentheses gives its      *)
(* function no arguments: the call returns what the function gives for the *)
(* empty list, so =COUNT() returns 0 and =AVG() returns 0.  The code       *)
(* splits the empty text into one empty piece and gives the function one   *)
(* argument, the empty string.                                             *)
(***************************************************************************)
C22_EmptyArgumentList ==
    Returned /\ IsText /\ Matches(formula.s) /\ NameOf(formula.s) \in FORMULA_FUNCTIONS
             /\ Len(ArgsOf(formula.s)) = 0 =>
        /\ result.val = Apply(NameOf(formula.s), <<>>).val
        /\ formula = Str("=COUNT()") => result.val = Num(0)
        /\ formula = Str("=AVG()") => result.val = Num(0)

(***************************************************************************)
(* Vocabulary of the claim about termination.                              *)
(***************************************************************************)
\* The recursive calls of evaluateFormula the call made, at any depth.
NestedCalls == Cardinality({i \in 1..Len(result.trace) : result.trace[i] = "nested"})

\* The argument tokens of the call, as the code captures and splits them.
Tokens ==
    LET pieces == Split(FunctionMatch(formula.s).argsString, ",")
    IN  {Trim(pieces[i]) : i \in 1..Len(pieces)}

(***************************************************************************)
(* C23: evaluateFormula returns for every formula and row: the argument    *)
(* tokens it may recurse on are strictly shorter than the formula, and a   *)
(* value read from the row is never evaluated as a formula, so the calls   *)
(* it makes on itself are at most as many as the '=' signs of the formula  *)
(* text after the first, fewer than the length of the formula, whatever    *)
(* the row holds (also a field whose value is a formula naming that        *)
(* field).                                                                 *)
(***************************************************************************)
C23_Terminates ==
    Returned =>
        /\ result.val.t \in JsTypes
        /\ IsText /\ FunctionMatch(formula.s).ok =>
               \A token \in Tokens : Len(token) < Len(formula.s)
        /\ IF IsText /\ Len(formula.s) > 0
           THEN /\ NestedCalls = 0 \/ NestedCalls <= Count(formula.s, "=") - 1
                /\ NestedCalls < Len(formula.s)
           ELSE NestedCalls = 0

\* A field holding a formula that names the field is read, not evaluated.
C23_Witness ==
    /\ Returned /\ formula = Str("=SUM(=SUM(=SUM(a)))")
    /\ HasFields({"a"}) /\ Field("a") = Str("=SUM(a)")
    /\ NestedCalls = 2
    /\ result = Ret(Num(0), <<"nested", "nested", "field", "SUM", "SUM", "SUM">>)

(***************************************************************************)
(* Vocabulary of the claim about the argument list.                        *)
(***************************************************************************)
\* The formula is dispatched to one of the functions.
IsDispatched ==
    /\ IsText /\ FunctionMatch(formula.s).ok
    /\ FunctionMatch(formula.s).functionName \in FORMULA_FUNCTIONS

\* The argument list the function is given.
DispatchedArgs == Values(ResolveArgs(FunctionMatch(formula.s).argsString, rowData))

IsInfinite(v) == v.t = "number" /\ v.d = 0 /\ v.n # 0

(***************************************************************************)
(* C24: the argument list evaluateFormula gives a function has one element *)
(* more than the captured argument text has commas, so at least one: AVG   *)
(* is never given the empty list, and MIN and MAX return Infinity or       *)
(* -Infinity only when an argument itself reads as one, never as the       *)
(* minimum or maximum of no numbers.                                       *)
(***************************************************************************)
C24_AtLeastOneArgument ==
    Returned /\ IsDispatched =>
        /\ Len(DispatchedArgs) = Count(FunctionMatch(formula.s).argsString, ",") + 1
        /\ Len(DispatchedArgs) >= 1
        /\ IsCallOf("AVG") => DispatchedArgs # <<>>
        /\ (IsCallOf("MIN") \/ IsCallOf("MAX")) /\ IsInfinite(result.val) =>
               \E i \in 1..Len(DispatchedArgs) :
                   DispatchedArgs[i].t = "string"
                   /\ IsInfinite(ParseFloatString(DispatchedArgs[i].s))

\* =MIN() is MIN of one argument, the empty text, which counts as 0.
C24_Witness ==
    /\ Returned /\ formula = Str("=MIN()")
    /\ DispatchedArgs = <<Str("")>>
    /\ result.val = Num(0)

(***************************************************************************)
(* Vocabulary of the claim about diagnostics of nested formulas.           *)
(***************************************************************************)
IsUnknownText(v) == v.t = "string" /\ StartsWithText(v.s, "Unknown function: ")

\* A diagnostic: "Unknown function: X", "Error", or a formula text returned
\* verbatim.
IsDiagnostic(v) ==
    IsUnknownText(v) \/ v = Str("Error") \/ (v.t = "string" /\ StartsWith(v.s, "="))

\* Argument i is written as a nested formula.
IsNestedArg(i) == StartsWith(ArgNames[i], "=") /\ ~IsKeyOfRow(ArgNames[i])

\* The argument values, 0 in place of the diagnostic of a nested formula.
DiagnosticsZeroed ==
    [i \in 1..Len(ArgValues) |->
        IF IsNestedArg(i) /\ IsDiagnostic(ArgValues[i]) THEN Num(0) ELSE ArgValues[i]]

IsNumericCall == \E name \in {"SUM", "AVG", "MIN", "MAX"} : IsCallOf(name)

\* A numeric function over scalars returns the number it gives with 0 for
\* every nested diagnostic.
NestedDiagnosticsCountZero ==
    Returned /\ IsNumericCall /\ (\A v \in Range(ArgValues) : IsScalar(v)) =>
        /\ result.val.t = "number" /\ ~IsNaN(result.val)
        /\ result.val = Apply(NameOf(formula.s), DiagnosticsZeroed).val

OutermostUnknown ==
    /\ IsText /\ Matches(formula.s) /\ NameOf(formula.s) \notin FORMULA_FUNCTIONS
    /\ result.val = Str("Unknown function: " \o NameOf(formula.s))

\* IF returned branch i (2 or 3), which is the value the call returned.
IfSelected(i) == IsIfOfThree /\ ArgValues[i] = result.val

(***************************************************************************)
(* C25, as stated: SUM, AVG, MIN and MAX count the diagnostic of a nested  *)
(* formula as 0 and return a number, and evaluateFormula returns an        *)
(* "Unknown function: X" text only when the outermost name is unknown or   *)
(* an IF selects the result of a nested formula as its branch value.       *)
(***************************************************************************)
C25_OnlyNestedResults ==
    /\ NestedDiagnosticsCountZero
    /\ Returned /\ IsUnknownText(result.val) =>
           \/ OutermostUnknown
           \/ \E i \in {2, 3} : IfSelected(i) /\ IsNestedArg(i)

(***************************************************************************)
(* C25, amended: as above, but the text is also returned when it is in the *)
(* input: the formula itself is that text (no leading '=', returned        *)
(* unchanged), or the branch IF selects is a literal or a field value with *)
(* that text.                                                              *)
(***************************************************************************)
C25_DiagnosticsStopAtNumbers ==
    /\ NestedDiagnosticsCountZero
    /\ Returned /\ IsUnknownText(result.val) =>
           \/ OutermostUnknown
           \/ \E i \in {2, 3} : IfSelected(i)
           \/ formula = result.val

C25_Witness ==
    /\ Returned /\ formula = Str("=SUM(=ABS(a),c)")
    /\ HasFields({"a", "c"}) /\ Field("a") = Num(2) /\ Field("c") = Num(6)
    /\ ArgValues[1] = Str("Unknown function: ABS")
    /\ result.val = Num(6)

(***************************************************************************)
(* Vocabulary of the claim about dependencies and evaluation.              *)
(***************************************************************************)
\* The row with the value of field f replaced by v.
WithField(f, v) == RowObject([rowData.props EXCEPT ![f] = v])

\* The result depends on field f: some other defined value of f changes it.
DependsOn(f) ==
    \E v \in FieldValues : evaluateFormula(formula, WithField(f, v)).val # result.val

(***************************************************************************)
(* C26: for rows whose field names are made of letters, digits and         *)
(* underscores, every field whose value the result of evaluateFormula      *)
(* depends on (two rows that differ in that field only give different      *)
(* results) is among getFormulaDependencies(formula, keys of the row).     *)
(***************************************************************************)
C26_DependenciesSound ==
    Returned /\ deps.called /\ rowData.t = "object" =>
        \A f \in DOMAIN rowData.props :
            (\A j \in 1..Len(f) : IsWordChar(CharAt(f, j))) /\ DependsOn(f) =>
                f \in Range(deps.val)

C26_Witness ==
    /\ Returned /\ deps.called /\ formula = Str("=SUM(=SUM(=MAX(a)),=SUM(b), c)")
    /\ HasFields({"a", "b", "c"})
    /\ DependsOn("a") /\ DependsOn("b") /\ DependsOn("c")
    /\ Range(deps.val) = {"a", "b", "c"}

(***************************************************************************)
(* Vocabulary of the claim relating the two analyzer functions.            *)
(***************************************************************************)
\* a is b with some entries left out: the entries of a are entries of b at
\* increasing indices.
IsSubsequence(a, b) ==
    \E at \in [1..Len(a) -> 1..Len(b)] :
        /\ \A i \in 1..Len(a) : a[i] = b[at[i]]
        /\ \A i \in 1..(Len(a) - 1) : at[i] < at[i + 1]

(***************************************************************************)
(* C27: hasCircularReference(formula, f) is true exactly when              *)
(* getFormulaDependencies(formula, [f]) is [f], and the list               *)
(* getFormulaDependencies returns is a subsequence of the fields it was    *)
(* given: the fields it lists, in the order given, as often as given.      *)
(***************************************************************************)
C27_AnalyzersAgree ==
    deps.called =>
        /\ circular.called /\ allFields.t = "array" /\ allFields.items = <<fieldName>> =>
               (circular.val <=> deps.val = <<fieldName>>)
        /\ IsSubsequence(deps.val, allFields.items)
        /\ LET Listed(field) == field \in Range(deps.val)
           IN  deps.val = SelectSeq(allFields.items, Listed)

C27_Witness ==
    /\ deps.called /\ circular.called
    /\ formula = Str("=SUM(tax,price)") /\ fieldName = "tax"
    /\ allFields.items = <<"tax">> /\ deps.val = <<"tax">> /\ circular.val

(***************************************************************************)
(* C28: for a column whose formula is a call of SUM, the cell the table    *)
(* renders for a record holds the number evaluateFormula returns for that  *)
(* formula and record, whether the arguments are fields, missing fields,   *)
(* numeric literals or nested formulas.  The render reads every argument   *)
(* as a field name, so a literal or a nested formula counts 0.             *)
(***************************************************************************)
C28_RenderIsEvaluate ==
    rendered.called /\ Returned /\ formulaEnabled /\ IsCallOf("SUM") =>
        rendered.val = result.val

(***************************************************************************)
(* C29: the rows the table holds have pairwise distinct keys, from its     *)
(* initialisation on and after every move and delete, so that a delete     *)
(* removes one row.  The key of an item is its key, else its id, else its  *)
(* index as text, and an id can be the index of another row: the keys     *)
(* collide although the items given name no key or id twice.               *)
(***************************************************************************)
GivenKey(item) == IF ToBoolean(item.key) THEN item.key ELSE item.id

\* The items handed to the table name no key or id twice.
GivenKeysDistinct ==
    \A i \in 1..Len(initialData) : \A j \in 1..Len(initialData) :
        i # j /\ ToBoolean(GivenKey(initialData[i])) =>
            GivenKey(initialData[i]) # GivenKey(initialData[j])

C29_DistinctKeys ==
    GivenKeysDistinct =>
        \A i \in 1..Len(dataSource) : \A j \in 1..Len(dataSource) :
            i # j => dataSource[i].key # dataSource[j].key

\* The call with the arguments after the third struck out.
FirstThree == Call("IF", SubSeq(Split(ArgsOf(formula.s), ","), 1, 3))

(***************************************************************************)
(* C30: an IF written with more than three arguments returns, on every     *)
(* row, what the same IF with only its first three arguments returns.      *)
(***************************************************************************)
C30_IfIgnoresExtraArguments ==
    Returned /\ IsCallOf("IF") /\ NumArgs > 3 =>
        result.val = evaluateFormula(Str(FirstThree), rowData).val

\* The condition fails and the third argument is returned, the fourth being
\* another value.
C30_Witness ==
    /\ Returned /\ formula = Str("=IF(1>2,c,d,a)")
    /\ FirstThree = "=IF(1>2,c,d)"
    /\ HasFields({"a", "d"}) /\ Field("a") # Field("d")
    /\ result.val = Field("d")
====
